---------------------------- MODULE Spec2Model ----------------------------
(***************************************************************************)
(* TSP comparison of codigo-g.py: the route cost evaluator                 *)
(* (obtener_costo_ruta), the exhaustive solver (busqueda_exhaustiva), the  *)
(* nearest-neighbour heuristic (vecino_mas_cercano) and the gap computed   *)
(* by main.                                                                *)
(*                                                                         *)
(* Python lists are 0-indexed; a route is kept here as a TLA+ sequence     *)
(* (1-indexed) of 0-based point indices, so ruta[i] of the code is         *)
(* ruta[i+1] here.  A matrix is a function over 0..n-1.                    *)
(*                                                                         *)
(* Distances are Python floats.  The float is modelled as a binary         *)
(* floating-point number with MantissaBits significant bits (instead of    *)
(* 53) and round-half-to-even, restricted to non-negative whole values:    *)
(* every addition rounds its exact result, as the hardware does.           *)
(*                                                                         *)
(* The elapsed times the solvers return (time.perf_counter) are left out:  *)
(* they are readings of a clock and no claim reads them.                   *)
(***************************************************************************)
EXTENDS Integers, Sequences, FiniteSets

\* Largest number of points of a matrix given to the solvers.
MaxN == 4
\* Largest number of points of a matrix given to the cost evaluator alone.
MaxPuntosCosto == 3
\* Longest route given to the cost evaluator alone.
MaxRuta == 4
\* Significant bits of the modelled float.
MantissaBits == 3
\* float('inf'), the initial minima_distancia.
Infinito == -1

\* The off-diagonal distances the matrices are built from.
Distancias == {1, 4}

VARIABLES
    matriz,            \* the distance matrix (matriz_distancias)
    inicio,            \* the start index given to both solvers
    ex_pc,             \* busqueda_exhaustiva: "espera", "iterando", "fin", "error"
    perm_idx,          \* busqueda_exhaustiva: position of the permutations iterator
    mejor_ruta,        \* busqueda_exhaustiva: mejor_ruta
    minima_distancia,  \* busqueda_exhaustiva: minima_distancia
    nn_pc,             \* vecino_mas_cercano: "espera", "iterando", "fin", "error"
    ruta,              \* vecino_mas_cercano: ruta
    por_visitar,       \* vecino_mas_cercano: por_visitar
    actual,            \* vecino_mas_cercano: actual
    pasos,             \* vecino_mas_cercano: iterations of the while loop so far
    distancia_nn,      \* vecino_mas_cercano: distancia
    rep_pc,            \* main: "espera", "fin", "error"
    gap,               \* main: gap
    ruta_eval,         \* cost evaluator alone: the route first evaluated
    costo_eval,        \* cost evaluator alone: its cost
    rot_eval,          \* cost evaluator alone: the rotation last evaluated
    costo_rot          \* cost evaluator alone: its cost

vars == <<matriz, inicio, ex_pc, perm_idx, mejor_ruta, minima_distancia,
          nn_pc, ruta, por_visitar, actual, pasos, distancia_nn, rep_pc, gap,
          ruta_eval, costo_eval, rot_eval, costo_rot>>

ex_vars == <<ex_pc, perm_idx, mejor_ruta, minima_distancia>>
nn_vars == <<nn_pc, ruta, por_visitar, actual, pasos, distancia_nn>>
rep_vars == <<rep_pc, gap>>
eval_vars == <<ruta_eval, costo_eval, rot_eval, costo_rot>>

-----------------------------------------------------------------------------
(* Floats *)

RECURSIVE Pot2(_)
Pot2(k) == IF k = 0 THEN 1 ELSE 2 * Pot2(k - 1)

\* The spacing of the floats around x: the least power of two u with
\* x < 2^MantissaBits * u.
RECURSIVE Ulp(_, _)
Ulp(x, u) == IF x < Pot2(MantissaBits) * u THEN u ELSE Ulp(x, 2 * u)

\* x >= 0, whose neighbouring floats are u apart, rounded to the nearest
\* float, ties to the even mantissa.
RedondearCon(x, u) ==
    IF 2 * (x % u) < u THEN (x \div u) * u
    ELSE IF 2 * (x % u) > u THEN (x \div u + 1) * u
    ELSE IF (x \div u) % 2 = 0 THEN (x \div u) * u ELSE (x \div u + 1) * u

\* x >= 0 rounded to the nearest float (y is x, evaluated once).
Redondear(x) == CHOOSE z \in {RedondearCon(y, Ulp(y, 1)) : y \in {x}} : TRUE

\* a + b on floats (costo += ...).
SumaFloat(a, b) == Redondear(a + b)

\* a - b on floats (dist_nn - dist_ex).
RestaFloat(a, b) == IF a >= b THEN Redondear(a - b) ELSE 0 - Redondear(b - a)

\* d < minima_distancia, where minima_distancia may be float('inf').
MenorEstrictoMutante(d, m) == m = Infinito \/ d <= m
MenorEstrictoInvertido(d, m) == m = Infinito \/ d > m
MenorEstricto(d, m) == m = Infinito \/ d < m

-----------------------------------------------------------------------------
(* Matrices *)

Indices(n) == 0 .. (n - 1)

N(m) == Cardinality(DOMAIN m)

Pares(n) == {p \in Indices(n) \X Indices(n) : p[1] < p[2]}

\* The matrices generar_matriz_distancias can return for n points: 0.0 on
\* the diagonal, the (symmetric) distance of the two points elsewhere.
Matrices(n) ==
    {[i \in Indices(n) |-> [j \in Indices(n) |->
        IF i = j THEN 0 ELSE IF i < j THEN f[<<i, j>>] ELSE f[<<j, i>>]]] :
        f \in [Pares(n) -> Distancias]}

-----------------------------------------------------------------------------
(* obtener_costo_ruta *)

\* costo after k iterations of the for loop.
RECURSIVE CostoHasta(_, _, _)
CostoHasta(r, m, k) ==
    IF k = 0 THEN 0
    ELSE SumaFloat(CostoHasta(r, m, k - 1), m[r[k]][r[k + 1]])

\* The call raises IndexError: ruta[-1] of an empty route, or an index of
\* the route that is no row or column of the matrix.
CostoLanzaError(r, m) ==
    \/ Len(r) = 0
    \/ \E i \in 1 .. Len(r) : r[i] \notin DOMAIN m

CostoSinCierre(r, m) == CostoHasta(r, m, Len(r) - 1)
obtener_costo_ruta(r, m) ==
    SumaFloat(CostoHasta(r, m, Len(r) - 1), m[r[Len(r)]][r[1]])

-----------------------------------------------------------------------------
(* busqueda_exhaustiva *)

\* The indices of S in ascending order: the i-th is the one with i-1
\* smaller indices in S.
ListaAscendente(S) ==
    [i \in 1 .. Cardinality(S) |->
        CHOOSE x \in S : Cardinality({y \in S : y < x}) = i - 1]

\* [i for i in range(n) if i != inicio]
CiudadesRestantesMutante(n, ini) == ListaAscendente(Indices(n))
CiudadesRestantes(n, ini) == ListaAscendente(Indices(n) \ {ini})

SinPosicion(s, i) == SubSeq(s, 1, i - 1) \o SubSeq(s, i + 1, Len(s))

\* k!
RECURSIVE Factorial(_)
Factorial(k) == IF k = 0 THEN 1 ELSE k * Factorial(k - 1)

\* itertools.permutations(s) yields Len(s)! tuples.
NumPermutacionesMutante(s) == 1
NumPermutaciones(s) == Factorial(Len(s))

\* The k-th tuple (from 0) itertools.permutations(s) yields: the iterator
\* yields in lexicographic order of the positions of s, so the first
\* (Len(s)-1)! tuples begin with s[1], the next (Len(s)-1)! with s[2], ...
RECURSIVE Permutacion(_, _)
Permutacion(s, k) ==
    IF Len(s) = 0 THEN <<>>
    ELSE <<s[k \div Factorial(Len(s) - 1) + 1]>> \o
         Permutacion(SinPosicion(s, k \div Factorial(Len(s) - 1) + 1),
                     k % Factorial(Len(s) - 1))

\* The number of routes the loop evaluates.
NumCandidatas(m, ini) == NumPermutaciones(CiudadesRestantes(N(m), ini))

\* ruta_actual of the j-th iteration (from 1): [inicio] + list(perm).
Candidata(m, ini, j) == <<ini>> \o Permutacion(CiudadesRestantes(N(m), ini), j - 1)

\* Lines 79-85: the call and the initialisation of the search.
ExIniciar ==
    /\ ex_pc = "espera"
    /\ ex_pc' = "iterando"
    /\ perm_idx' = 1
    /\ mejor_ruta' = <<>>
    /\ minima_distancia' = Infinito
    /\ UNCHANGED <<matriz, inicio, nn_vars, rep_vars, eval_vars>>

\* Lines 87-92: one iteration of the for loop over the permutations.
ExIterar ==
    /\ ex_pc = "iterando"
    /\ perm_idx <= NumCandidatas(matriz, inicio)
    /\ LET ruta_actual == Candidata(matriz, inicio, perm_idx)
       IN  IF CostoLanzaError(ruta_actual, matriz)
           THEN /\ ex_pc' = "error"
                /\ UNCHANGED <<perm_idx, mejor_ruta, minima_distancia>>
           ELSE LET d == obtener_costo_ruta(ruta_actual, matriz)
                IN  /\ ex_pc' = "iterando"
                    /\ perm_idx' = perm_idx + 1
                    /\ IF MenorEstricto(d, minima_distancia)
                       THEN /\ minima_distancia' = d
                            /\ mejor_ruta' = ruta_actual
                       ELSE UNCHANGED <<mejor_ruta, minima_distancia>>
    /\ UNCHANGED <<matriz, inicio, nn_vars, rep_vars, eval_vars>>

\* Lines 94-95: the iterator is exhausted, the function returns.
ExRetornar ==
    /\ ex_pc = "iterando"
    /\ perm_idx > NumCandidatas(matriz, inicio)
    /\ ex_pc' = "fin"
    /\ UNCHANGED <<perm_idx, mejor_ruta, minima_distancia>>
    /\ UNCHANGED <<matriz, inicio, nn_vars, rep_vars, eval_vars>>

-----------------------------------------------------------------------------
(* vecino_mas_cercano *)

\* The order in which `for c in por_visitar` visits the set.  por_visitar
\* is set(range(n)) with elements removed and none added: hash(i) = i and
\* the table has more slots than n, so index i sits in slot i and the
\* iteration, which scans the slots upwards, is ascending.
ListaDescendente(S) ==
    [i \in 1 .. Cardinality(S) |->
        CHOOSE x \in S : Cardinality({y \in S : y > x}) = i - 1]
OrdenIteracionMutante(S) == ListaDescendente(S)
OrdenIteracion(S) == ListaAscendente(S)

\* The key of min: lambda c: matriz_distancias[actual][c].
ClaveMutante(m, act, c) == 0 - m[act][c]
Clave(m, act, c) == m[act][c]

\* min(iterable, key=...) over the items s in iteration order: the position
\* of the first item with the least key (a later item replaces the best so
\* far only if its key is strictly smaller).
PrimerMinimo(s, m, act) ==
    CHOOSE i \in 1 .. Len(s) :
        \A j \in 1 .. Len(s) :
            \/ Clave(m, act, s[i]) < Clave(m, act, s[j])
            \/ Clave(m, act, s[i]) = Clave(m, act, s[j]) /\ i <= j

\* siguiente = min(por_visitar, key=lambda c: matriz_distancias[actual][c])
Siguiente(S, m, act) ==
    OrdenIteracion(S)[PrimerMinimo(OrdenIteracion(S), m, act)]

\* Lines 101-102: por_visitar = set(range(n)); por_visitar.remove(inicio).
PorVisitarInicialMutante(n, ini) == Indices(n)
PorVisitarInicial(n, ini) == Indices(n) \ {ini}

\* while por_visitar: the loop goes on.
BucleSigueMutante(S) == Cardinality(S) > 1
BucleSigue(S) == S # {}

\* Lines 99-105: the call and the initialisation; por_visitar.remove(inicio)
\* raises KeyError when inicio is no index of the matrix.
NNLlamar ==
    /\ nn_pc = "espera"
    /\ IF inicio \notin Indices(N(matriz))
       THEN /\ nn_pc' = "error"
            /\ ruta' = <<inicio>>
            /\ por_visitar' = Indices(N(matriz))
            /\ UNCHANGED actual
       ELSE /\ nn_pc' = "iterando"
            /\ ruta' = <<inicio>>
            /\ por_visitar' = PorVisitarInicial(N(matriz), inicio)
            /\ actual' = inicio
    /\ UNCHANGED <<pasos, distancia_nn>>
    /\ UNCHANGED <<matriz, inicio, ex_vars, rep_vars, eval_vars>>

\* Line 179: main calls the heuristic after the exhaustive search.
NNIniciar ==
    /\ ex_pc \in {"fin", "error"}
    /\ NNLlamar

\* Lines 107-111: one iteration of the while loop.
NNPaso ==
    /\ nn_pc = "iterando"
    /\ BucleSigue(por_visitar)
    /\ LET siguiente == Siguiente(por_visitar, matriz, actual)
       IN  /\ ruta' = Append(ruta, siguiente)
           /\ por_visitar' = por_visitar \ {siguiente}
           /\ actual' = siguiente
    /\ pasos' = pasos + 1
    /\ UNCHANGED <<nn_pc, distancia_nn>>
    /\ UNCHANGED <<matriz, inicio, ex_vars, rep_vars, eval_vars>>

\* Lines 113-115: the loop has ended; the cost of the route is evaluated
\* and the function returns.
NNRetornar ==
    /\ nn_pc = "iterando"
    /\ ~BucleSigue(por_visitar)
    /\ IF CostoLanzaError(ruta, matriz)
       THEN /\ nn_pc' = "error"
            /\ UNCHANGED distancia_nn
       ELSE /\ nn_pc' = "fin"
            /\ distancia_nn' = obtener_costo_ruta(ruta, matriz)
    /\ UNCHANGED <<ruta, por_visitar, actual, pasos>>
    /\ UNCHANGED <<matriz, inicio, ex_vars, rep_vars, eval_vars>>

-----------------------------------------------------------------------------
(* main *)

\* Line 182: gap = ((dist_nn - dist_ex) / dist_ex) * 100.0, kept as the
\* whole percent; the division raises ZeroDivisionError when dist_ex is 0.
Reporte ==
    /\ rep_pc = "espera"
    /\ ex_pc = "fin"
    /\ nn_pc = "fin"
    /\ IF minima_distancia = 0
       THEN /\ rep_pc' = "error"
            /\ UNCHANGED gap
       ELSE /\ rep_pc' = "fin"
            /\ gap' = (RestaFloat(distancia_nn, minima_distancia) * 100)
                          \div minima_distancia
    /\ UNCHANGED <<matriz, inicio, ex_vars, nn_vars, eval_vars>>

-----------------------------------------------------------------------------
(* The solvers on every matrix of up to MaxN points *)

\* The inputs: a matrix of n points and a start index of it; with no
\* points, the default start index 0.
Entradas ==
    {<<m, i>> : m \in Matrices(0), i \in {0}}
        \cup UNION {Matrices(n) \X Indices(n) : n \in 1 .. MaxN}

\* Nothing has been called yet.
SinLlamadas ==
    /\ ex_pc = "espera"
    /\ perm_idx = 0
    /\ mejor_ruta = <<>>
    /\ minima_distancia = Infinito
    /\ nn_pc = "espera"
    /\ ruta = <<>>
    /\ por_visitar = {}
    /\ actual = 0
    /\ pasos = 0
    /\ distancia_nn = 0
    /\ rep_pc = "espera"
    /\ gap = 0
    /\ ruta_eval = <<>>
    /\ costo_eval = 0
    /\ rot_eval = <<>>
    /\ costo_rot = 0

Init ==
    /\ \E e \in Entradas : matriz = e[1] /\ inicio = e[2]
    /\ SinLlamadas

Next ==
    \/ ExIniciar
    \/ ExIterar
    \/ ExRetornar
    \/ NNIniciar
    \/ NNPaso
    \/ NNRetornar
    \/ Reporte

Spec == Init /\ [][Next]_vars

\* The heuristic called on its own.
NextVecino ==
    \/ NNLlamar
    \/ NNPaso
    \/ NNRetornar

\* The heuristic runs to completion: its loop, once entered, keeps taking
\* the step it can take, and the function returns when the loop has ended.
VecinoSpec ==
    Init /\ [][NextVecino]_vars /\ WF_vars(NNPaso) /\ WF_vars(NNRetornar)

-----------------------------------------------------------------------------
(* The cost evaluator alone, on every route of up to MaxRuta indices *)

\* The non-empty routes over the points of m.
Rutas(m) == UNION {[1 .. k -> DOMAIN m] : k \in 1 .. MaxRuta}

\* The same cyclic order written from the next starting point.
Rotar(r) == Tail(r) \o <<Head(r)>>

\* obtener_costo_ruta(r, matriz) for a route r.
EvaluarRuta ==
    /\ ruta_eval = <<>>
    /\ \E r \in Rutas(matriz) :
          /\ ~CostoLanzaError(r, matriz)
          /\ ruta_eval' = r
          /\ costo_eval' = obtener_costo_ruta(r, matriz)
          /\ rot_eval' = r
          /\ costo_rot' = obtener_costo_ruta(r, matriz)
    /\ UNCHANGED <<matriz, inicio, ex_vars, nn_vars, rep_vars>>

\* obtener_costo_ruta(r', matriz) for the next rotation r' of the route.
EvaluarRotacion ==
    /\ ruta_eval # <<>>
    /\ Rotar(rot_eval) # ruta_eval
    /\ rot_eval' = Rotar(rot_eval)
    /\ costo_rot' = obtener_costo_ruta(Rotar(rot_eval), matriz)
    /\ UNCHANGED <<ruta_eval, costo_eval>>
    /\ UNCHANGED <<matriz, inicio, ex_vars, nn_vars, rep_vars>>

InitCosto ==
    /\ matriz \in UNION {Matrices(n) : n \in 1 .. MaxPuntosCosto}
    /\ inicio = 0
    /\ SinLlamadas

NextCosto ==
    \/ EvaluarRuta
    \/ EvaluarRotacion

SpecCosto == InitCosto /\ [][NextCosto]_vars

-----------------------------------------------------------------------------
(* Properties *)

n_puntos == N(matriz)

\* The permutations of a set of indices, as a set.
PermutacionesDe(S) ==
    {p \in [1 .. Cardinality(S) -> S] : \A a, b \in DOMAIN p : p[a] = p[b] => a = b}

\* Every route that begins with the start index followed by a permutation
\* of the remaining indices.
RutasDesdeInicio ==
    {<<inicio>> \o p : p \in PermutacionesDe(Indices(n_puntos) \ {inicio})}

\* r has length n, holds every index 0..n-1 and begins with the start index.
EsPermutacionDesdeInicio(r) ==
    /\ Len(r) = n_puntos
    /\ {r[i] : i \in 1 .. Len(r)} = Indices(n_puntos)
    /\ r[1] = inicio

\* a comes strictly before b in lexicographic order.
LexMenor(a, b) ==
    \E k \in 1 .. Len(a) :
        /\ k <= Len(b)
        /\ a[k] < b[k]
        /\ \A j \in 1 .. (k - 1) : a[j] = b[j]

\* The indices not yet visited when the i-th element of ruta was selected.
SinVisitarEn(i) == Indices(n_puntos) \ {ruta[j] : j \in 1 .. (i - 1)}

\* The sum of the n edges of the cycle r, without rounding.
RECURSIVE SumaExactaHasta(_, _, _)
SumaExactaHasta(r, m, k) ==
    IF k = 0 THEN 0 ELSE SumaExactaHasta(r, m, k - 1) + m[r[k]][r[k + 1]]
SumaExacta(r, m) == SumaExactaHasta(r, m, Len(r) - 1) + m[r[Len(r)]][r[1]]

\* C1: for n >= 1 points and a start index of the matrix, busqueda_exhaustiva
\* does not fail, the cost it returns is the minimum of obtener_costo_ruta
\* over all routes that begin with the start index followed by a permutation
\* of the remaining indices, and the route it returns is one of those routes
\* and has that cost.
C1_ExhaustivaMinimo ==
    n_puntos >= 1 =>
        /\ ex_pc # "error"
        /\ ex_pc = "fin" =>
            /\ mejor_ruta \in RutasDesdeInicio
            /\ obtener_costo_ruta(mejor_ruta, matriz) = minima_distancia
            /\ \A r \in RutasDesdeInicio :
                 minima_distancia <= obtener_costo_ruta(r, matriz)

\* C1 witness: the search has returned on four points, some candidate costs
\* more than the minimum, and the first candidate was not the best one.
C1_Witness ==
    /\ ex_pc = "fin"
    /\ n_puntos = 4
    /\ mejor_ruta # Candidata(matriz, inicio, 1)
    /\ \E r \in RutasDesdeInicio : obtener_costo_ruta(r, matriz) > minima_distancia

\* C2: whenever both solvers have returned on the same matrix and start
\* index, the cost of busqueda_exhaustiva is at most the cost of
\* vecino_mas_cercano, and the gap main computes from them is not negative.
C2_GapNoNegativo ==
    /\ (ex_pc = "fin" /\ nn_pc = "fin") => minima_distancia <= distancia_nn
    /\ rep_pc = "fin" => gap >= 0

\* C2 witness: the gap has been computed and the heuristic was strictly worse.
C2_Witness ==
    /\ rep_pc = "fin"
    /\ minima_distancia < distancia_nn
    /\ gap > 0

\* C3: the route each solver returns has length n, holds every index of
\* 0..n-1 (so each exactly once) and begins with the start index.
C3_RutasSonPermutaciones ==
    /\ ex_pc = "fin" => EsPermutacionDesdeInicio(mejor_ruta)
    /\ nn_pc = "fin" => EsPermutacionDesdeInicio(ruta)

\* C3 witness: both solvers have returned on at least three points, from a
\* start index other than 0.
C3_Witness ==
    /\ ex_pc = "fin"
    /\ nn_pc = "fin"
    /\ n_puntos >= 3
    /\ inicio # 0

\* C4 (as claimed): on a matrix of 0 or 1 points, with the default start
\* index, neither solver raises, and each returns a route that is empty or
\* the single start index, with cost zero.
C4_DegeneradosNoFallan ==
    (n_puntos <= 1 /\ inicio = 0) =>
        /\ ex_pc # "error"
        /\ nn_pc # "error"
        /\ ex_pc = "fin" => (mejor_ruta \in {<<>>, <<0>>} /\ minima_distancia = 0)
        /\ nn_pc = "fin" => (ruta \in {<<>>, <<0>>} /\ distancia_nn = 0)

\* C5: at every selection step of vecino_mas_cercano the index appended to
\* the route is an unvisited index, and no unvisited index is closer to the
\* current position than it.
C5_PasoEligeMinimo ==
    [][NNPaso =>
        /\ actual' \in por_visitar
        /\ ruta' = Append(ruta, actual')
        /\ \A c \in por_visitar : matriz[actual][actual'] <= matriz[actual][c]]_vars

\* C5 witness: a step has acted where some unvisited index was strictly
\* farther than the one selected.
C5_Witness ==
    /\ nn_pc = "iterando"
    /\ Len(ruta) >= 2
    /\ \E c \in SinVisitarEn(2) : matriz[ruta[1]][ruta[2]] < matriz[ruta[1]][c]

C7_PrimeraEnEmpate ==
    /\ [](ex_pc = "fin" =>
            \A r \in RutasDesdeInicio :
                obtener_costo_ruta(r, matriz) = minima_distancia
                    => (r = mejor_ruta \/ LexMenor(mejor_ruta, r)))
    /\ [][(ExIterar /\ mejor_ruta' # mejor_ruta) =>
            (minima_distancia = Infinito \/ minima_distancia' < minima_distancia)]_vars

\* C7 witness: the search has returned and another candidate has the same
\* minimum cost as the route returned.
C7_Witness ==
    /\ ex_pc = "fin"
    /\ \E r \in RutasDesdeInicio :
         r # mejor_ruta /\ obtener_costo_ruta(r, matriz) = minima_distancia

\* C8 (as claimed): obtener_costo_ruta returns the same cost for a
\* non-empty route and for every cyclic rotation of it.
C8_RotacionMismoCosto ==
    ruta_eval # <<>> => costo_rot = costo_eval

\* C8 (amended): obtener_costo_ruta returns the same cost for a route and
\* for every cyclic rotation of it when the route has at most two points or
\* when the sum of its edges is small enough for every partial sum to be an
\* exact float (no addition rounds).
C8_RotacionSinRedondeo ==
    (/\ ruta_eval # <<>>
     /\ \/ Len(ruta_eval) <= 2
        \/ SumaExacta(ruta_eval, matriz) < Pot2(MantissaBits))
        => costo_rot = costo_eval

\* C8 witness: a proper rotation of a route of at least three points with
\* edges of different lengths has been evaluated, with no rounding.
C8_Witness ==
    /\ Len(ruta_eval) >= 3
    /\ rot_eval # ruta_eval
    /\ SumaExacta(ruta_eval, matriz) < Pot2(MantissaBits)
    /\ \E i, j \in 1 .. (Len(ruta_eval) - 1) :
         matriz[ruta_eval[i]][ruta_eval[i + 1]] # matriz[ruta_eval[j]][ruta_eval[j + 1]]
    /\ costo_rot = costo_eval

\* C9: once the loop of vecino_mas_cercano is entered (n >= 1 and a start
\* index of the matrix) the solver returns, having made exactly n-1
\* selection steps, and each step removes exactly one index from the
\* unvisited set.
C9_TerminaEnNMenos1 ==
    /\ (nn_pc = "iterando") ~> (nn_pc = "fin" /\ pasos = n_puntos - 1)
    /\ [][NNPaso =>
            /\ por_visitar' \subseteq por_visitar
            /\ Cardinality(por_visitar') = Cardinality(por_visitar) - 1]_vars

\* C9 witness: the heuristic has returned after three selection steps.
C9_Witness ==
    /\ nn_pc = "fin"
    /\ pasos = 3
    /\ n_puntos = 4

\* C10: in every state of the loop of vecino_mas_cercano, and at its exit,
\* the route has no repeated index, no index of the route is unvisited,
\* every index is in the route or unvisited, and the current position is
\* the last element of the route.
C10_ParticionRutaPorVisitar ==
    nn_pc \in {"iterando", "fin"} =>
        /\ \A a, b \in 1 .. Len(ruta) : ruta[a] = ruta[b] => a = b
        /\ {ruta[i] : i \in 1 .. Len(ruta)} \cap por_visitar = {}
        /\ {ruta[i] : i \in 1 .. Len(ruta)} \cup por_visitar = Indices(n_puntos)
        /\ actual = ruta[Len(ruta)]

\* C10 witness: the loop is between two steps, with indices on both sides.
C10_Witness ==
    /\ nn_pc = "iterando"
    /\ Len(ruta) >= 2
    /\ Cardinality(por_visitar) >= 2

=============================================================================
